---- MODULE Spec2Model ----
(***************************************************************************)
(* Lifecycle of the WhatsApp/Gemini bot of app.py: the single global      *)
(* WhatsAppBot session, the Flask handlers that drive it, the auto-start  *)
(* thread, and the process_messages poll loops that start() spawns.       *)
(* Python threads interleave between statements, so start, stop and the   *)
(* poll loop are split at the points where they touch shared state or the *)
(* browser.  The browser, the chat page and the Gemini provider are the   *)
(* environment: their outcomes are chosen nondeterministically.           *)
(***************************************************************************)
EXTENDS Integers, FiniteSets, Sequences, TLC

\* ---- bounds ----
MaxStarts == 2      \* start() calls explored (each launches at most one browser)
MaxPolls == 2       \* poll-loop threads explored
MaxChats == 1       \* unread conversations returned by one DOM query

\* ---- threads ----
HttpClients == {"http1"}             \* Flask request thread
AutoClient == "auto"                 \* run_bot_in_background thread
Clients == HttpClients \cup {AutoClient}
Sessions == 1..MaxStarts             \* browser sessions, in launch order
Threads == 1..MaxPolls               \* process_messages threads, in spawn order

\* ---- message data ----
Texts == {"Hello"}
AiText(m) == <<"gemini", m>>         \* response.text of a successful provider call
Fallback == <<"I'm having trouble connecting to the AI service. Please try again later.">>
NoText == ""                         \* no message read yet
NoReply == <<>>                      \* no completion requested yet
Propagated == <<"raise">>            \* an exception leaving get_gemini_response
NoKind == "unread"                   \* the messages of the open chat not queried
Kinds == {"none", "message-in", "message-out"}   \* no message / class of the last one

\* ---- HTTP responses ----
RespNone == [status |-> "none"]
HomeBody == [status |-> "text", message |-> "WhatsApp Gemini Bot is running!"]
StartOk == [status |-> "success", message |-> "Bot started successfully"]
StartErr == [status |-> "error", message |-> "Failed to start bot"]
StopOk == [status |-> "success", message |-> "Bot stopped successfully"]
Healthy_always_running(b) == [status |-> "healthy", bot_running |-> TRUE]
Healthy(b) == [status |-> "healthy", bot_running |-> b]
Raised == [status |-> "raised"]      \* unhandled exception leaves the view function

VARIABLES
    running,            \* bot.running
    is_authenticated,   \* bot.is_authenticated
    driver,             \* bot.driver: 0 is None, s > 0 is the s-th browser launched
    launched,           \* browser sessions ever created
    quitSet,            \* browser sessions on which quit() has been called
    nstarts,            \* number of start() calls made so far
    pc,                 \* position of each client thread
    reentrant,          \* per client inside start(): bot.running was True at entry
    stopIdle,           \* per client inside stop(): bot.running was False at entry
    resp,               \* last HTTP response received by each client
    thread,             \* position of each poll loop ("none": not spawned)
    todo,               \* per poll loop: unread chats left in this iteration
    text,               \* per poll loop: message_text of the open chat
    reply,              \* per poll loop: ai_response for the open chat
    kind,               \* per poll loop: what the last message query found
    calls,              \* per poll loop: completion calls made for the open chat
    inbox,              \* per poll loop: text typed into the input box, not yet sent
    stopSeen            \* poll loops that were alive when a stop() cleared running

vars == <<running, is_authenticated, driver, launched, quitSet, nstarts, pc,
          reentrant, stopIdle, resp, thread, todo, text, reply, kind, calls, inbox,
          stopSeen>>

sessionVars == <<running, is_authenticated, driver>>
browserVars == <<launched, quitSet>>
clientVars == <<pc, reentrant, stopIdle, resp>>
chatVars == <<text, reply, kind, calls, inbox>>
pollVars == <<thread, todo, chatVars, stopSeen>>
loopVars == <<todo, chatVars, stopSeen>>

Init ==
    /\ running = FALSE
    /\ is_authenticated = FALSE
    /\ driver = 0
    /\ launched = {}
    /\ quitSet = {}
    /\ nstarts = 0
    /\ pc = [c \in Clients |-> "idle"]
    /\ reentrant = [c \in Clients |-> FALSE]
    /\ stopIdle = [c \in Clients |-> FALSE]
    /\ resp = [c \in Clients |-> RespNone]
    /\ thread = [t \in Threads |-> "none"]
    /\ todo = [t \in Threads |-> 0]
    /\ text = [t \in Threads |-> NoText]
    /\ reply = [t \in Threads |-> NoReply]
    /\ kind = [t \in Threads |-> NoKind]
    /\ calls = [t \in Threads |-> <<>>]
    /\ inbox = [t \in Threads |-> NoReply]
    /\ stopSeen = {}

\* ---- helpers ----
DriverLive == driver # 0 /\ driver \notin quitSet

\* Outcomes of one Selenium call on bot.driver: a quit (or missing) browser
\* always raises, a live one may answer or raise.
DomOutcomes == IF DriverLive THEN {"ok", "raise"} ELSE {"raise"}

\* Outcomes of one WebDriverWait(...).until(...): the element appears, or the
\* wait times out / the driver raises.
WaitOutcomes == IF DriverLive THEN {"found", "timeout"} ELSE {"timeout"}

\* Positions inside start(): before initialize_driver, and the handshake
\* states AwaitingChallenge (await_challenge, challenge), ChallengeDisplayed
\* (await_login) and Authenticated (spawn).
StartPcs == {"init", "await_challenge", "challenge", "await_login", "spawn"}
InStart(c) == pc[c] \in StartPcs

Spawned == {t \in Threads : thread[t] # "none"}
Alive(t) == thread[t] \notin {"none", "done"}
AliveThreads == {t \in Threads : Alive(t)}

\* A start_bot that reports success whatever bot.start() returned.
start_bot_always_success(started) == StartOk

\* start_bot: maps the boolean of bot.start() to the JSON body.
start_bot(started) == IF started THEN StartOk ELSE StartErr

\* The thread leaves start(): an HTTP client gets a response, the auto-start
\* thread ends.
Leave(c, r) ==
    /\ pc' = [pc EXCEPT ![c] = IF c = AutoClient THEN "exited" ELSE "idle"]
    /\ resp' = [resp EXCEPT ![c] = IF c = AutoClient THEN RespNone ELSE r]
    /\ reentrant' = [reentrant EXCEPT ![c] = FALSE]

\* A wait_for_login without its except clause: the exception leaves start().
LoginFailed_propagates(c) ==
    /\ Leave(c, Raised)
    /\ UNCHANGED <<sessionVars, browserVars, nstarts, stopIdle, pollVars>>

\* wait_for_login's except branch (handshake state Failed): log, return False;
\* start returns False.
LoginFailed(c) ==
    /\ Leave(c, start_bot(FALSE))
    /\ UNCHANGED <<sessionVars, browserVars, nstarts, stopIdle, pollVars>>

\* ---- control surface ----
home(c) ==
    /\ c \in HttpClients
    /\ pc[c] = "idle"
    /\ resp' = [resp EXCEPT ![c] = HomeBody]
    /\ UNCHANGED <<sessionVars, browserVars, nstarts, pc, reentrant, stopIdle, pollVars>>

health_check(c) ==
    /\ c \in HttpClients
    /\ pc[c] = "idle"
    /\ resp' = [resp EXCEPT ![c] = Healthy(running)]
    /\ UNCHANGED <<sessionVars, browserVars, nstarts, pc, reentrant, stopIdle, pollVars>>

\* start(), line 145: self.running = True (no guard on the current state).
StartCall(c) ==
    /\ pc[c] = "idle"
    /\ nstarts < MaxStarts
    /\ Cardinality(Spawned) + Cardinality({d \in Clients : InStart(d)}) < MaxPolls
    /\ nstarts' = nstarts + 1
    /\ reentrant' = [reentrant EXCEPT ![c] = running]
    /\ running' = TRUE
    /\ pc' = [pc EXCEPT ![c] = "init"]
    /\ resp' = [resp EXCEPT ![c] = RespNone]
    /\ UNCHANGED <<is_authenticated, driver, browserVars, stopIdle, pollVars>>

\* run_bot_in_background with AUTO_START other than "true": the thread ends.
AutoSkip ==
    /\ pc[AutoClient] = "idle"
    /\ pc' = [pc EXCEPT ![AutoClient] = "exited"]
    /\ UNCHANGED <<sessionVars, browserVars, nstarts, reentrant, stopIdle, resp, pollVars>>

\* initialize_driver: webdriver.Chrome(...) then driver.get(url).  Nothing in
\* start() or start_bot() catches an exception raised here.
InitializeDriver(c) ==
    /\ pc[c] = "init"
    /\ \E o \in {"launch_raises", "get_raises", "ok"} :
        /\ driver' = IF o = "launch_raises" THEN driver ELSE Cardinality(launched) + 1
        /\ launched' = IF o = "launch_raises" THEN launched
                       ELSE launched \cup {Cardinality(launched) + 1}
        /\ IF o = "ok"
             THEN /\ pc' = [pc EXCEPT ![c] = "await_challenge"]
                  /\ UNCHANGED <<resp, reentrant>>
             ELSE Leave(c, Raised)
    /\ UNCHANGED <<running, is_authenticated, quitSet, nstarts, stopIdle, pollVars>>

\* wait_for_login, line 60: wait up to 30 for the QR canvas.
AwaitChallenge(c) ==
    /\ pc[c] = "await_challenge"
    /\ \E o \in WaitOutcomes :
        IF o = "found"
          THEN /\ pc' = [pc EXCEPT ![c] = "challenge"]
               /\ UNCHANGED <<sessionVars, browserVars, nstarts, reentrant, stopIdle,
                              resp, pollVars>>
          ELSE LoginFailed(c)

\* wait_for_login, lines 65-73: read the canvas, decode it, show the QR image.
ShowChallenge(c) ==
    /\ pc[c] = "challenge"
    /\ \E o \in DomOutcomes :
        IF o = "ok"
          THEN /\ pc' = [pc EXCEPT ![c] = "await_login"]
               /\ UNCHANGED <<sessionVars, browserVars, nstarts, reentrant, stopIdle,
                              resp, pollVars>>
          ELSE LoginFailed(c)

\* A wait_for_login that sets is_authenticated before the second wait.
AwaitLogin_flag_first(c) ==
    /\ pc[c] = "await_login"
    /\ is_authenticated' = TRUE
    /\ \E o \in WaitOutcomes :
        IF o = "found"
          THEN /\ pc' = [pc EXCEPT ![c] = "spawn"]
               /\ UNCHANGED <<resp, reentrant>>
          ELSE Leave(c, start_bot(FALSE))
    /\ UNCHANGED <<running, driver, browserVars, nstarts, stopIdle, pollVars>>

\* A wait_for_login that returns True without setting is_authenticated.
AwaitLogin_no_flag(c) ==
    /\ pc[c] = "await_login"
    /\ \E o \in WaitOutcomes :
        IF o = "found"
          THEN /\ pc' = [pc EXCEPT ![c] = "spawn"]
               /\ UNCHANGED <<sessionVars, browserVars, nstarts, reentrant, stopIdle,
                              resp, pollVars>>
          ELSE LoginFailed(c)

\* wait_for_login, lines 76-82: wait up to 120 for the chat list, then set
\* is_authenticated and return True.
AwaitLogin(c) ==
    /\ pc[c] = "await_login"
    /\ \E o \in WaitOutcomes :
        IF o = "found"
          THEN /\ is_authenticated' = TRUE
               /\ pc' = [pc EXCEPT ![c] = "spawn"]
               /\ UNCHANGED <<running, driver, browserVars, nstarts, reentrant, stopIdle,
                              resp, pollVars>>
          ELSE LoginFailed(c)

\* start(), lines 148-154: the handshake returned True: start the daemon
\* thread on process_messages and return True.
SpawnPollLoop(c) ==
    /\ pc[c] = "spawn"
    /\ thread' = [thread EXCEPT ![Cardinality(Spawned) + 1] = "check"]
    /\ Leave(c, start_bot(TRUE))
    /\ UNCHANGED <<sessionVars, browserVars, nstarts, stopIdle, loopVars>>

\* stop(), line 159: self.running = False.
StopCall(c) ==
    /\ c \in HttpClients
    /\ pc[c] = "idle"
    /\ stopIdle' = [stopIdle EXCEPT ![c] = ~running]
    /\ running' = FALSE
    /\ pc' = [pc EXCEPT ![c] = "stop_quit"]
    /\ resp' = [resp EXCEPT ![c] = RespNone]
    /\ stopSeen' = stopSeen \cup AliveThreads
    /\ UNCHANGED <<is_authenticated, driver, browserVars, nstarts, reentrant,
                   thread, todo, chatVars>>

\* stop(), lines 160-162, and stop_bot's return: quit the browser if a handle
\* is held (the handle itself is kept).  quit() may raise.
StopQuit(c) ==
    /\ pc[c] = "stop_quit"
    /\ pc' = [pc EXCEPT ![c] = "idle"]
    /\ stopIdle' = [stopIdle EXCEPT ![c] = FALSE]
    /\ IF driver = 0
         THEN /\ resp' = [resp EXCEPT ![c] = StopOk]
              /\ UNCHANGED quitSet
         ELSE /\ quitSet' = quitSet \cup {driver}
              /\ \E o \in {"ok", "raise"} :
                    resp' = [resp EXCEPT ![c] = IF o = "ok" THEN StopOk ELSE Raised]
    /\ UNCHANGED <<sessionVars, launched, nstarts, reentrant, pollVars>>

\* ---- poll loop (process_messages) ----

\* The locals of the open chat are dropped.
CloseChat(t) ==
    /\ text' = [text EXCEPT ![t] = NoText]
    /\ reply' = [reply EXCEPT ![t] = NoReply]
    /\ kind' = [kind EXCEPT ![t] = NoKind]
    /\ calls' = [calls EXCEPT ![t] = <<>>]
    /\ inbox' = [inbox EXCEPT ![t] = NoReply]

\* An iteration without its except clause: the exception ends the thread.
Recover_terminates(t) ==
    /\ thread' = [thread EXCEPT ![t] = "done"]
    /\ todo' = [todo EXCEPT ![t] = 0]
    /\ CloseChat(t)

\* The except branch of the iteration: log and go to the recovery sleep.
Recover(t) ==
    /\ thread' = [thread EXCEPT ![t] = "sleep10"]
    /\ todo' = [todo EXCEPT ![t] = 0]
    /\ CloseChat(t)

\* One Selenium call of the loop at position p; on success go to q.
DomStep(t, p, q) ==
    /\ thread[t] = p
    /\ \E o \in DomOutcomes :
        IF o = "ok"
          THEN /\ thread' = [thread EXCEPT ![t] = q]
               /\ UNCHANGED <<todo, chatVars>>
          ELSE Recover(t)
    /\ UNCHANGED <<sessionVars, browserVars, nstarts, clientVars, stopSeen>>

\* The for loop moves to the next unread chat, or the iteration ends.
NextChat(t) ==
    /\ todo' = [todo EXCEPT ![t] = todo[t] - 1]
    /\ thread' = [thread EXCEPT ![t] = IF todo[t] > 1 THEN "click_chat" ELSE "sleep5"]
    /\ CloseChat(t)

\* line 99: while self.running
CheckRunning(t) ==
    /\ thread[t] = "check"
    /\ thread' = [thread EXCEPT ![t] = IF running THEN "find_unread" ELSE "done"]
    /\ stopSeen' = IF running THEN stopSeen ELSE stopSeen \ {t}
    /\ UNCHANGED <<sessionVars, browserVars, nstarts, clientVars, todo, chatVars>>

\* lines 102-105: find the unread chats.
FindUnread(t) ==
    /\ thread[t] = "find_unread"
    /\ \E o \in DomOutcomes :
        IF o = "ok"
          THEN \E n \in 0..MaxChats :
                /\ todo' = [todo EXCEPT ![t] = n]
                /\ thread' = [thread EXCEPT ![t] = IF n = 0 THEN "sleep5" ELSE "click_chat"]
                /\ UNCHANGED chatVars
          ELSE Recover(t)
    /\ UNCHANGED <<sessionVars, browserVars, nstarts, clientVars, stopSeen>>

\* lines 108-109: chat.click(), settle 2 seconds.
ClickChat(t) ==
    /\ thread[t] = "click_chat"
    /\ \E o \in DomOutcomes :
        IF o = "ok"
          THEN /\ thread' = [thread EXCEPT ![t] = "find_msgs"]
               /\ kind' = [kind EXCEPT ![t] = NoKind]
               /\ UNCHANGED <<todo, text, reply, calls, inbox>>
          ELSE Recover(t)
    /\ UNCHANGED <<sessionVars, browserVars, nstarts, clientVars, stopSeen>>

\* lines 117 and 122 false: the chat is left as it is.  After the last chat of
\* the iteration kind keeps what the query found until the sleep is over;
\* otherwise the for loop moves on to the next chat at once.
SkipChat(t, k) ==
    /\ todo' = [todo EXCEPT ![t] = todo[t] - 1]
    /\ thread' = [thread EXCEPT ![t] = IF todo[t] > 1 THEN "click_chat" ELSE "sleep5"]
    /\ kind' = [kind EXCEPT ![t] = IF todo[t] > 1 THEN NoKind ELSE k]
    /\ UNCHANGED <<text, reply, calls, inbox>>

\* A direction test that answers every message, the bot's own included.
is_incoming_any(k) == k # "none"

\* line 122: "message-in" in last_message.get_attribute("class")
is_incoming(k) == k = "message-in"

\* lines 112-122: query the messages; if there are any, read the last one's
\* text and class and test its direction.
FindMessages(t) ==
    /\ thread[t] = "find_msgs"
    /\ \E o \in DomOutcomes :
        IF o = "ok"
          THEN \E k \in Kinds, m \in Texts :
                IF is_incoming(k)
                  THEN /\ text' = [text EXCEPT ![t] = m]
                       /\ kind' = [kind EXCEPT ![t] = k]
                       /\ thread' = [thread EXCEPT ![t] = "complete"]
                       /\ UNCHANGED <<todo, reply, calls, inbox>>
                  ELSE SkipChat(t, k)
          ELSE Recover(t)
    /\ UNCHANGED <<sessionVars, browserVars, nstarts, clientVars, stopSeen>>

\* What the provider does with one request: answer, or fail (in
\* generate_content or when response.text is read).
ProviderOutcomes == {"ok", "raise"}

\* A get_gemini_response without its except clause.
get_gemini_response_unguarded(message, o) ==
    IF o = "ok" THEN AiText(message) ELSE Propagated

\* get_gemini_response: the provider's text, or the fallback when it raises.
get_gemini_response(message, o) ==
    IF o = "ok" THEN AiText(message) ELSE Fallback

\* line 124: ai_response = self.get_gemini_response(message_text).  The call
\* sits inside the iteration's try block.
Complete(t) ==
    /\ thread[t] = "complete"
    /\ \E o \in ProviderOutcomes :
        LET r == get_gemini_response(text[t], o) IN
        IF r = Propagated
          THEN Recover(t)
          ELSE /\ reply' = [reply EXCEPT ![t] = r]
               /\ calls' = [calls EXCEPT ![t] = Append(calls[t], <<text[t], o>>)]
               /\ thread' = [thread EXCEPT ![t] = "click_input"]
               /\ UNCHANGED <<todo, text, kind, inbox>>
    /\ UNCHANGED <<sessionVars, browserVars, nstarts, clientVars, stopSeen>>

\* lines 127-131: locate the input box and click it.
ClickInput(t) == DomStep(t, "click_input", "type")

\* An input step that types the incoming message back instead of the reply.
typed_text_echo(t) == AiText(text[t])

\* line 132: the argument of input_box.send_keys
typed_text(t) == reply[t]

\* line 132: type the reply.
TypeReply(t) ==
    /\ thread[t] = "type"
    /\ \E o \in DomOutcomes :
        IF o = "ok"
          THEN /\ inbox' = [inbox EXCEPT ![t] = typed_text(t)]
               /\ thread' = [thread EXCEPT ![t] = "send"]
               /\ UNCHANGED <<todo, text, reply, kind, calls>>
          ELSE Recover(t)
    /\ UNCHANGED <<sessionVars, browserVars, nstarts, clientVars, stopSeen>>

\* line 133 (Enter), then the next chat or the normal sleep.
SendReply(t) ==
    /\ thread[t] = "send"
    /\ \E o \in DomOutcomes :
        IF o = "ok" THEN NextChat(t) ELSE Recover(t)
    /\ UNCHANGED <<sessionVars, browserVars, nstarts, clientVars, stopSeen>>

\* lines 137 and 141: time.sleep(5) / time.sleep(10), then back to the test.
Sleep(t) ==
    /\ thread[t] \in {"sleep5", "sleep10"}
    /\ thread' = [thread EXCEPT ![t] = "check"]
    /\ kind' = [kind EXCEPT ![t] = NoKind]
    /\ UNCHANGED <<sessionVars, browserVars, nstarts, clientVars, todo, text, reply,
                   calls, inbox, stopSeen>>

PollStep(t) ==
    \/ CheckRunning(t)
    \/ FindUnread(t)
    \/ ClickChat(t)
    \/ FindMessages(t)
    \/ Complete(t)
    \/ ClickInput(t)
    \/ TypeReply(t)
    \/ SendReply(t)
    \/ Sleep(t)

Next ==
    \/ \E c \in Clients : StartCall(c)
    \/ AutoSkip
    \/ \E c \in Clients : InitializeDriver(c)
    \/ \E c \in Clients : AwaitChallenge(c)
    \/ \E c \in Clients : ShowChallenge(c)
    \/ \E c \in Clients : AwaitLogin(c)
    \/ \E c \in Clients : SpawnPollLoop(c)
    \/ \E c \in HttpClients : home(c)
    \/ \E c \in HttpClients : health_check(c)
    \/ \E c \in HttpClients : StopCall(c)
    \/ \E c \in HttpClients : StopQuit(c)
    \/ \E t \in Threads : PollStep(t)

Spec == Init /\ [][Next]_vars

TypeOK ==
    /\ running \in BOOLEAN
    /\ is_authenticated \in BOOLEAN
    /\ driver \in 0..MaxStarts
    /\ quitSet \subseteq launched
    /\ launched \subseteq Sessions
    /\ nstarts \in 0..MaxStarts
    /\ Cardinality(Spawned) <= MaxPolls

\* The poll loop is scheduled like any other thread: a loop that can take a
\* step eventually takes it.
FairSpec == Spec /\ \A t \in Threads : WF_vars(PollStep(t))

\* ---- steps named by the properties ----
\* Client c returns from start() in this step.
StartReturns(c) == InStart(c) /\ pc'[c] \notin StartPcs

\* Client c returns from start() in this step with the handshake Failed.
HandshakeFails(c) ==
    /\ pc[c] \in {"await_challenge", "challenge", "await_login"}
    /\ pc'[c] \notin StartPcs

\* Client c returns from stop() in this step.
StopReturns(c) == pc[c] = "stop_quit" /\ pc'[c] = "idle"

\* Positions of the poll loop whose next statement is a Selenium call.
DomPcs == {"find_unread", "click_chat", "find_msgs", "click_input", "type", "send"}

\* Poll loop t issues a Selenium call in this step.
DomCall(t) == thread[t] \in DomPcs /\ thread'[t] # thread[t]

\* ---- properties ----

\* C1: a start whose login handshake fails or times out returns
\* {status: "error", message: "Failed to start bot"} and running is false
\* right after the call.
C1_FailedStartLeavesNotRunning ==
    [][\A c \in Clients :
         HandshakeFails(c) =>
            /\ running' = FALSE
            /\ (c \in HttpClients => resp'[c] = StartErr)]_vars

\* C2: in every reachable state, running implies that a poll loop is alive
\* or that a start call still in progress is about to spawn one.
C2_RunningImpliesPollThread ==
    running => (AliveThreads # {} \/ \E c \in Clients : InStart(c))

\* C3: a start call made while running is already true is a no-op: no step
\* of that call launches a browser, overwrites the driver handle or spawns a
\* poll loop.
C3_StartWhileRunningIsNoOp ==
    [][\A c \in Clients :
         (reentrant[c] /\ pc'[c] # pc[c]) =>
            /\ launched' = launched
            /\ driver' = driver
            /\ thread' = thread]_vars

\* C4: in every reachable state at most one poll loop is alive.
C4_AtMostOnePollThread == Cardinality(AliveThreads) <= 1

\* C5: once stop has set running to false, every poll loop alive at that
\* moment eventually terminates.
C5_StoppedLoopTerminates ==
    \A t \in Threads : (t \in stopSeen) ~> (thread[t] = "done")

\* C6: the poll loop never issues a Selenium call on a browser session that
\* stop has already quit.
C6_NoDomCallOnQuitSession ==
    [][\A t \in Threads : DomCall(t) => driver \notin quitSet]_vars

\* C7: a stop called while running is false returns the success response,
\* leaves running, is_authenticated and the driver handle unchanged, and
\* calls quit on no browser that is not running.
C7_StopWhenNotRunningIsNoOp ==
    [][\A c \in HttpClients :
         /\ (pc[c] = "idle" /\ pc'[c] = "stop_quit" /\ ~running) =>
                UNCHANGED sessionVars
         /\ (StopReturns(c) /\ stopIdle[c] /\ ~running) =>
                /\ UNCHANGED sessionVars
                /\ resp'[c] = StopOk
                /\ driver \notin quitSet]_vars

\* C8: in the state reached when a stop call returns, the session holds no
\* driver handle.
C8_DriverClearedByStop ==
    [][\A c \in HttpClients : StopReturns(c) => driver' = 0]_vars

\* C9: start returns success exactly when the handshake ended in
\* Authenticated (is_authenticated set), and the call spawns a poll loop
\* exactly when it returns success; poll loops are spawned by nothing else.
C9_SuccessIffAuthenticatedIffSpawn ==
    [][/\ \A c \in Clients :
            StartReturns(c) =>
               /\ (c \in HttpClients => (resp'[c] = StartOk <=> pc[c] = "spawn"))
               /\ (c \in HttpClients /\ resp'[c] = StartOk => is_authenticated')
               /\ (c \in HttpClients /\ pc[c] # "spawn" => resp'[c] \in {StartErr, Raised})
               /\ (Spawned' # Spawned <=> pc[c] = "spawn")
               /\ Cardinality(Spawned') <= Cardinality(Spawned) + 1
       /\ Spawned' # Spawned => \E c \in Clients : StartReturns(c)]_vars

\* C9 witness: a request got the success response with its poll loop spawned,
\* while the auto-start call ended without success and spawned none.
C9_Witness ==
    \E c \in HttpClients :
        /\ resp[c] = StartOk
        /\ pc[AutoClient] = "exited"
        /\ nstarts = 2
        /\ Cardinality(Spawned) = 1

\* C10: no control-surface handler lets an exception escape: every request
\* ends in a structured response.
C10_HandlersNeverRaise == \A c \in HttpClients : resp[c] # Raised

\* ---- poll-loop steps named by the properties ----
\* Poll loop t takes a step.
ThreadStep(t) == thread'[t] # thread[t]

\* Positions at which the loop answers the open chat.
AnswerPcs == {"complete", "click_input", "type", "send"}

\* Positions at which the loop works on a conversation.
ProcessingPcs == {"click_chat", "find_msgs"} \cup AnswerPcs

\* Positions of the login handshake inside wait_for_login.
HandshakePcs == {"await_challenge", "challenge", "await_login"}

\* Client c takes a step.
ClientStep(c) == pc'[c] # pc[c]

\* Client c receives the answer of a health request in this step.
HealthReturns(c) ==
    /\ pc[c] = "idle"
    /\ pc'[c] = "idle"
    /\ resp'[c] # resp[c]
    /\ resp'[c].status = "healthy"

\* C11: a step of the poll iteration that raises is absorbed: the loop goes
\* to the recovery sleep (10), not the normal one (5), then re-checks running
\* and, while running holds, starts another iteration; the thread ends only
\* at the running test.
C11_ExceptionAbsorbed ==
    [][\A t \in Threads :
         ThreadStep(t) =>
            /\ (thread[t] \in DomPcs /\ ~DriverLive) => thread'[t] = "sleep10"
            /\ thread'[t] = "sleep10" => thread[t] \in DomPcs
            /\ thread'[t] = "sleep5" => DriverLive
            /\ thread[t] = "sleep10" => thread'[t] = "check"
            /\ (thread[t] = "check" /\ running) => thread'[t] = "find_unread"
            /\ thread'[t] = "done" => (thread[t] = "check" /\ ~running)]_vars

\* C11 witness: a loop is in the recovery sleep while the bot is running.
C11_Witness == \E t \in Threads : thread[t] = "sleep10" /\ running

\* C12: for a visited conversation whose last message is outgoing, or which
\* has no message, no completion call is made and nothing is clicked, typed
\* or sent; the loop answers only incoming messages.
C12_OutgoingNotAnswered ==
    \A t \in Threads :
        /\ kind[t] \in {"none", "message-out"} =>
              /\ thread[t] \in {"click_chat", "sleep5"}
              /\ calls[t] = <<>>
              /\ reply[t] = NoReply
              /\ inbox[t] = NoReply
        /\ thread[t] \in AnswerPcs => kind[t] = "message-in"

\* C12 witness: the loop has just left a conversation whose last message is
\* outgoing.
C12_Witness ==
    \E t \in Threads : kind[t] = "message-out" /\ thread[t] = "sleep5" /\ calls[t] = <<>>

\* C13 (amended): for an incoming last message with text T the completion
\* client is called exactly once, with prompt T, before the input box is
\* touched; what is typed is the text that call returned, and the send follows
\* the typing.  A Selenium call that raises cuts the sequence short.
C13_AnswerInOrder ==
    \A t \in Threads :
        /\ thread[t] \notin AnswerPcs => (calls[t] = <<>> /\ inbox[t] = NoReply)
        /\ thread[t] = "complete" =>
              /\ text[t] \in Texts
              /\ calls[t] = <<>>
              /\ reply[t] = NoReply
              /\ inbox[t] = NoReply
        /\ thread[t] \in {"click_input", "type", "send"} =>
              /\ Len(calls[t]) = 1
              /\ calls[t][1][1] = text[t]
              /\ reply[t] = get_gemini_response(text[t], calls[t][1][2])
        /\ thread[t] \in {"click_input", "type"} => inbox[t] = NoReply
        /\ thread[t] = "send" => inbox[t] = reply[t]

\* C13 witness: the provider's answer to "Hello" is typed and about to be sent.
C13_Witness ==
    \E t \in Threads :
        /\ thread[t] = "send"
        /\ calls[t] = << <<"Hello", "ok">> >>
        /\ inbox[t] = AiText("Hello")

\* C13 (as stated): the completion is called once with prompt T and the text
\* it returns is then always entered into the input box and sent.
C13_ReplyAlwaysSent ==
    /\ []C13_AnswerInOrder
    /\ [][\A t \in Threads :
            (ThreadStep(t) /\ thread[t] \in {"click_input", "type", "send"}) =>
                thread'[t] # "sleep10"]_vars

\* C14: get_gemini_response never propagates an error: the completion step
\* always yields a reply, the fallback when the provider raised, and never
\* sends the loop to its recovery path.
C14_CompletionNeverRaises ==
    [][\A t \in Threads :
         (ThreadStep(t) /\ thread[t] = "complete") =>
            /\ thread'[t] = "click_input"
            /\ Len(calls'[t]) = 1
            /\ reply'[t] \in {AiText(text[t]), Fallback}
            /\ (calls'[t][1][2] = "raise" => reply'[t] = Fallback)
            /\ (calls'[t][1][2] = "ok" => reply'[t] = AiText(text[t]))]_vars

\* C14 witness: the provider raised and the loop goes on with the fallback.
C14_Witness ==
    \E t \in Threads :
        /\ thread[t] = "click_input"
        /\ calls[t] = << <<"Hello", "raise">> >>
        /\ reply[t] = Fallback

\* C15: a health call changes none of running, is_authenticated, the driver
\* handle or the poll loops, and its bot_running is the current running.
C15_HealthReadsRunning ==
    [][\A c \in HttpClients :
         HealthReturns(c) =>
            /\ resp'[c] = [status |-> "healthy", bot_running |-> running]
            /\ UNCHANGED <<sessionVars, browserVars, pollVars>>]_vars

\* C15 witness: health answered bot_running true while a poll loop is alive.
C15_Witness ==
    \E c \in HttpClients :
        /\ resp[c] = [status |-> "healthy", bot_running |-> TRUE]
        /\ running
        /\ AliveThreads # {}

\* C16: is_authenticated implies that the handshake of the current session
\* succeeded: it is not left true by a session that was stopped, nor by a
\* later start whose handshake failed.
C16_AuthenticatedCurrentSession ==
    /\ [](is_authenticated => DriverLive)
    /\ [][\A c \in Clients :
            (HandshakeFails(c) /\ \A d \in Clients \ {c} : ~InStart(d)) =>
                ~is_authenticated']_vars

\* C17: the handshake moves AwaitingChallenge -> ChallengeDisplayed ->
\* Authenticated; is_authenticated is set only by the step that sees the chat
\* list after the challenge was displayed; a wait that cannot succeed ends in
\* Failed, which leaves the handshake, returns False and does not set
\* is_authenticated.
C17_HandshakeStateMachine ==
    [][/\ \A c \in Clients :
            ClientStep(c) =>
               /\ pc'[c] = "challenge" => pc[c] = "await_challenge"
               /\ pc'[c] = "await_login" => pc[c] = "challenge"
               /\ pc'[c] = "spawn" => (pc[c] = "await_login" /\ is_authenticated')
               /\ pc[c] = "await_challenge" =>
                       (pc'[c] = "challenge" \/ HandshakeFails(c))
               /\ pc[c] = "challenge" =>
                       (pc'[c] = "await_login" \/ HandshakeFails(c))
               /\ pc[c] = "await_login" =>
                       (pc'[c] = "spawn" \/ HandshakeFails(c))
               /\ (pc[c] \in HandshakePcs /\ ~DriverLive) => HandshakeFails(c)
               /\ HandshakeFails(c) =>
                       /\ is_authenticated' = is_authenticated
                       /\ (c \in HttpClients => resp'[c] = StartErr)
       /\ is_authenticated' # is_authenticated =>
            \E c \in Clients : pc[c] = "await_login" /\ pc'[c] = "spawn"]_vars

\* C17 witness: a handshake has reached Authenticated on a live browser.
C17_Witness ==
    \E c \in Clients : pc[c] = "spawn" /\ is_authenticated /\ DriverLive

\* C18: no exception leaves wait_for_login: every step of the handshake
\* either goes on or ends the start call with the False result (the error
\* response), never with an exception.
C18_LoginNeverPropagates ==
    [][\A c \in HttpClients :
         (ClientStep(c) /\ pc[c] \in HandshakePcs) =>
            /\ resp'[c] # Raised
            /\ (pc'[c] \notin StartPcs => resp'[c] = StartErr)]_vars

\* C18 witness: a start request ended with the error response after its
\* browser had been launched.
C18_Witness ==
    \E c \in HttpClients : resp[c] = StartErr /\ DriverLive /\ ~is_authenticated

\* C19: over the whole process no two conversation-processing steps (click,
\* message query, completion call, typing, send) are in progress at the same
\* time.
C19_OneConversationAtATime ==
    Cardinality({t \in Threads : thread[t] \in ProcessingPcs}) <= 1

\* C20: a poll loop exists only if is_authenticated is true; no completion
\* call or reply is issued by a session that never authenticated.
C20_PollLoopOnlyIfAuthenticated ==
    \A t \in Threads :
        (thread[t] # "none" \/ calls[t] # <<>> \/ inbox[t] # NoReply) => is_authenticated

\* C20 witness: an authenticated session's loop is about to send a reply.
C20_Witness ==
    \E t \in Threads : thread[t] = "send" /\ inbox[t] # NoReply /\ is_authenticated
====
